---- MODULE Spec2Model ----
(***************************************************************************)
(* Willi, a transparent SMTP proxy: the recipient -> upstream resolver and *)
(* the proxied session (ProxySession wrapped by LoggingSession) of         *)
(* src/proxy.go, with the mappings of src/mapping.go.                      *)
(*                                                                         *)
(* Strings are sequences of one-character strings, so that Split,          *)
(* Contains and Sprintf are computed as the code computes them.            *)
(***************************************************************************)
EXTENDS Integers, Sequences, FiniteSets, TLC

VARIABLES
    recipientDelimiter, \* ProxySession.recipientDelimiter
    mappings,           \* ProxySession.mappings, the ordered chain
    clientTls,          \* ProxySession.clientTls
    msg,                \* ProxySession.msg, the current message tx
    lastError,          \* LoggingSession.lastError
    conns,              \* every upstream connection dialed by smtp.Dial
    reply,              \* the last callback and the error it returned
    phase,              \* where the SMTP server library is in the session
    hasRcpt,            \* the library holds an accepted recipient
    txn,                \* number of the current transaction
    rin,                \* the recipient of the last getServer call
    rfail,              \* the keys whose query failed during that call
    rout,               \* what that call returned, with the lookups made
    line,               \* the canonical info line the last callback logged
    lines,              \* canonical lines logged in the current transaction
    sessions,           \* the sessions of concurrent client connections
    loggers,            \* SessionLoggers.loggers: remote address -> logger
    lock,               \* SessionLoggers.lock: its writer and its readers
    pc,                 \* where each client connection's goroutine stands
    got                 \* the logger each connection's NewSession works with

vars == <<recipientDelimiter, mappings, clientTls, msg, lastError, conns,
          reply, phase, hasRcpt, txn, rin, rfail, rout, line, lines,
          sessions, loggers, lock, pc, got>>

----------------------------------------------------------------------------
(* Bounds *)

MaxRcpts == 2      \* RCPT TO per transaction
MaxMails == 2      \* MAIL FROM per session

----------------------------------------------------------------------------
(* strings *)

Empty == <<>>

Contains(s, c) == \E i \in 1..Len(s) : s[i] = c

RECURSIVE SplitFrom(_, _, _, _)
SplitFrom(s, sep, i, cur) ==
    IF i > Len(s) THEN <<cur>>
    ELSE IF s[i] = sep THEN <<cur>> \o SplitFrom(s, sep, i + 1, <<>>)
    ELSE SplitFrom(s, sep, i + 1, Append(cur, s[i]))

\* strings.Split(s, sep) for a one-character separator
Split(s, sep) == SplitFrom(s, sep, 1, <<>>)

\* the recipients and keys of the model
R_foo_tag_d == <<"f", "+", "t", "@", "d">>
R_foo_d == <<"f", "@", "d">>
R_bar_e == <<"b", "@", "e">>
R_two_tags == <<"f", "+", "t", "+", "u", "@", "d">>
R_local == <<"f">>
K_d == <<"d">>
K_e == <<"e">>

\* the upstream servers of the model
MxA == <<"A", ":", "2", "5", "2", "5">>
MxB == <<"B">>
MxC == <<"C", ":", "2", "5">>
MxS == <<"S", ":", "2", "5">>

----------------------------------------------------------------------------
(* errors *)

NoEnhancedCode == <<-1, -1, -1>>

Nil == [kind |-> "nil", code |-> 0, enh |-> <<0, 0, 0>>, text |-> ""]

SMTPError(code, enh, text) ==
    [kind |-> "smtp", code |-> code, enh |-> enh, text |-> text]

\* an error that is not an *smtp.SMTPError
OtherError(text) == [kind |-> "other", code |-> 0, enh |-> <<0, 0, 0>>, text |-> text]

ErrRelayAccessDenied == SMTPError(554, <<5, 7, 1>>, "Relay access denied")

ErrInternal ==
    SMTPError(450, NoEnhancedCode, "Internal server error. Please try again later.")

ErrNoServerFound == OtherError("No server found for pattern")

\* fmt.Errorf("lookup %T: %w", mapping, err)
ErrLookup == OtherError("lookup: query failed")

\* what a failing upstream command returns: the upstream's SMTP reply, or a
\* transport error
UpstreamReject == SMTPError(550, <<5, 1, 1>>, "rejected by upstream")
ErrTransport == OtherError("i/o error")

\* the TLS handshake of StartTLS rejecting the upstream's certificate
ErrCertificate == OtherError("x509: certificate signed by unknown authority")

----------------------------------------------------------------------------
(* mappings *)

StaticMapping(server) == [type |-> "static", server |-> server, servers |-> {}]
CSVMapping(rows) == [type |-> "csv", server |-> Empty, servers |-> rows]
SQLMapping(rows) == [type |-> "sql", server |-> Empty, servers |-> rows]

\* one record of a mapping: pattern;server;tls_verify
Upstream(k, s, v) == [key |-> k, server |-> s, tlsVerify |-> v]

\* a record without the tls_verify field: true is used
Row(k, s) == Upstream(k, s, TRUE)

HasKey(rows, k) == \E r \in rows : r.key = k
RowOf(rows, k) == (CHOOSE r \in rows : r.key = k).server

Found(server) == [server |-> server, err |-> Nil]
NotFound == [server |-> Empty, err |-> ErrNoServerFound]

\* a static mapping that answers addresses only
staticMappingGet_AddressesOnly(mapping, key) ==
    IF \E k \in 1..Len(key) : key[k] = "@"
    THEN Found(mapping.server)
    ELSE NotFound

staticMappingGet(mapping, key) == Found(mapping.server)

csvMappingGet(mapping, key) ==
    IF HasKey(mapping.servers, key)
    THEN Found(RowOf(mapping.servers, key))
    ELSE NotFound

\* failing is the set of keys whose query fails at this call
sqlMappingGet(mapping, key, failing) ==
    IF key \in failing
    THEN [server |-> Empty, err |-> OtherError("query failed")]
    ELSE IF HasKey(mapping.servers, key)
    THEN Found(RowOf(mapping.servers, key))
    ELSE NotFound

\* Mapping.Get
MappingGet(mapping, key, failing) ==
    CASE mapping.type = "static" -> staticMappingGet(mapping, key)
      [] mapping.type = "csv" -> csvMappingGet(mapping, key)
      [] mapping.type = "sql" -> sqlMappingGet(mapping, key, failing)

----------------------------------------------------------------------------
(* resolver *)

removeSuffix(recipient, delimiter) ==
    LET parts1 == Split(recipient, "+") IN
    IF Len(parts1) = 2
    THEN LET parts2 == Split(parts1[2], "@") IN
         IF Len(parts2) = 2
         THEN parts1[1] \o <<"@">> \o parts2[2]
         ELSE recipient
    ELSE recipient

lookupKey(mapping, key, failing) == MappingGet(mapping, key, failing)

\* one lookup as the resolver made it: the mapping's place in the chain, the
\* key and the outcome
Lookup(i, key, err) == [m |-> i, key |-> key, err |-> err]

Resolution(server, err, trace) ==
    [server |-> server, err |-> err, trace |-> trace]

\* lookupRecipient going on to the domain after any failed lookup
lookupRecipient_AnyError(i, recipient0, failing) ==
    LET mapping == mappings[i]
        recipient == IF recipientDelimiter # Empty
                     THEN removeSuffix(recipient0, recipientDelimiter)
                     ELSE recipient0
        first == lookupKey(mapping, recipient, failing)
        parts == Split(recipient, "@")
        second == first.err # Nil /\ Len(parts) = 2
        res == IF second THEN lookupKey(mapping, parts[2], failing) ELSE first
        trace == IF second
                 THEN <<Lookup(i, recipient, first.err),
                        Lookup(i, parts[2], res.err)>>
                 ELSE <<Lookup(i, recipient, first.err)>>
    IN  IF res.err # Nil /\ res.err # ErrNoServerFound
        THEN Resolution(Empty, ErrLookup, trace)
        ELSE IF Contains(res.server, ":")
        THEN Resolution(res.server, res.err, trace)
        ELSE Resolution(res.server \o <<":", "2", "5">>, res.err, trace)

\* lookupRecipient returning the mapping's server as it is
lookupRecipient_NoPort(i, recipient0, failing) ==
    LET mapping == mappings[i]
        recipient == IF recipientDelimiter # Empty
                     THEN removeSuffix(recipient0, recipientDelimiter)
                     ELSE recipient0
        first == lookupKey(mapping, recipient, failing)
        parts == Split(recipient, "@")
        second == first.err = ErrNoServerFound /\ Len(parts) = 2
        res == IF second THEN lookupKey(mapping, parts[2], failing) ELSE first
        trace == IF second
                 THEN <<Lookup(i, recipient, first.err),
                        Lookup(i, parts[2], res.err)>>
                 ELSE <<Lookup(i, recipient, first.err)>>
    IN  IF res.err # Nil /\ res.err # ErrNoServerFound
        THEN Resolution(Empty, ErrLookup, trace)
        ELSE Resolution(res.server, res.err, trace)

lookupRecipient(i, recipient0, failing) ==
    LET mapping == mappings[i]
        recipient == IF recipientDelimiter # Empty
                     THEN removeSuffix(recipient0, recipientDelimiter)
                     ELSE recipient0
        first == lookupKey(mapping, recipient, failing)
        parts == Split(recipient, "@")
        second == first.err = ErrNoServerFound /\ Len(parts) = 2
        res == IF second THEN lookupKey(mapping, parts[2], failing) ELSE first
        trace == IF second
                 THEN <<Lookup(i, recipient, first.err),
                        Lookup(i, parts[2], res.err)>>
                 ELSE <<Lookup(i, recipient, first.err)>>
    IN  IF res.err # Nil /\ res.err # ErrNoServerFound
        THEN Resolution(Empty, ErrLookup, trace)
        ELSE IF Contains(res.server, ":")
        THEN Resolution(res.server, res.err, trace)
        ELSE Resolution(res.server \o <<":", "2", "5">>, res.err, trace)

RECURSIVE getServerFrom(_, _, _, _)
getServerFrom(i, recipient, failing, trace) ==
    IF i > Len(mappings) THEN Resolution(Empty, ErrNoServerFound, trace)
    ELSE LET r == lookupRecipient(i, recipient, failing) IN
         IF r.err = ErrNoServerFound
         THEN getServerFrom(i + 1, recipient, failing, trace \o r.trace)
         ELSE Resolution(r.server, r.err, trace \o r.trace)

\* getServer answering with the upstream the transaction already chose
getServer_Sticky(recipient, failing) ==
    IF msg.server # Empty
    THEN Resolution(msg.server, Nil, <<>>)
    ELSE getServerFrom(1, recipient, failing, <<>>)

getServer(recipient, failing) == getServerFrom(1, recipient, failing, <<>>)

----------------------------------------------------------------------------
(* the message tx and the upstream connections *)

NoClient == 0

buildProxyMessage(from) ==
    [from |-> from, rcpts |-> <<>>, server |-> Empty, client |-> NoClient,
     tls |-> FALSE]

buildZeroProxyMessage == buildProxyMessage(Empty)

\* a connection returned by smtp.Dial; cmds is what was sent on it
NewConn(server) ==
    [server |-> server, txn |-> txn, open |-> TRUE, tls |-> FALSE,
     ext |-> <<>>, cmds |-> <<>>]

Cmd(cmd, arg, ok) == [cmd |-> cmd, arg |-> arg, ok |-> ok]

\* the extensions of the upstream's EHLO reply, as smtp.Client keeps them
Extensions(env) ==
    (IF env.xadv THEN <<"XCLIENT">> ELSE <<>>)
        \o (IF env.tadv THEN <<"STARTTLS">> ELSE <<>>)

\* the certificate the upstream presents, where the handshake got that far
BadCert == <<"b", "a", "d">>

Send(cs, id, cmd, arg, ok) ==
    [cs EXCEPT ![id].cmds = Append(@, Cmd(cmd, arg, ok))]

\* what is remembered of a connection the session can no longer send on
Past(open) ==
    [server |-> Empty, txn |-> 0, open |-> open, tls |-> FALSE,
     ext |-> <<>>, cmds |-> <<>>]

\* Quit succeeded, or Close was called
CloseConn(cs, id) == [cs EXCEPT ![id] = Past(FALSE)]

\* Mail overwrites s.msg: the client it held is no longer referenced
Orphan(cs, id) ==
    IF id = NoClient THEN cs ELSE [cs EXCEPT ![id] = Past(cs[id].open)]

\* what a callback of ProxySession leaves: the message tx, the connections,
\* the error it returns and whether it called the resolver
Result(m, cs, err, calls) ==
    [msg |-> m, conns |-> cs, err |-> err, resolved |-> calls]

----------------------------------------------------------------------------
(* ProxySession *)

\* Mail keeping the upstream of the transaction before
ProxyMail_KeepUpstream(from) ==
    [buildProxyMessage(from) EXCEPT !.server = msg.server,
                                    !.client = msg.client]

ProxyMail(from) == buildProxyMessage(from)

\* the tail of Rcpt dropping the upstream's answer
ForwardRcpt_SwallowError(m, cs, to, env, calls) ==
    Result(m, Send(cs, m.client, "RCPT", to, env.failAt # "rcpt"), Nil, calls)

\* the tail of Rcpt: forward the RCPT on the transaction's client
ForwardRcpt(m, cs, to, env, calls) ==
    IF env.failAt = "rcpt"
    THEN Result(m, Send(cs, m.client, "RCPT", to, FALSE), env.errv, calls)
    ELSE Result(m, Send(cs, m.client, "RCPT", to, TRUE), Nil, calls)

SendMail(m, cs, to, env) ==
    IF env.failAt = "mail"
    THEN Result(m, Send(cs, m.client, "MAIL", m.from, FALSE), env.errv, 1)
    ELSE ForwardRcpt(m, Send(cs, m.client, "MAIL", m.from, TRUE), to, env, 1)

\* StartTLS only when the upstream advertises it and the client side is TLS
StartTLS_ClientTlsOnly(m, cs, to, env) ==
    IF env.tadv /\ clientTls
    THEN IF env.failAt = "starttls"
         THEN Result(m, Send(cs, m.client, "STARTTLS", Empty, FALSE),
                     env.errv, 1)
         ELSE IF env.failAt = "cert"
         THEN Result(m, Send(cs, m.client, "STARTTLS", BadCert, FALSE),
                     ErrCertificate, 1)
         ELSE SendMail([m EXCEPT !.tls = TRUE],
                       [Send(cs, m.client, "STARTTLS", Empty, TRUE)
                           EXCEPT ![m.client].tls = TRUE],
                       to, env)
    ELSE SendMail(m, cs, to, env)

\* StartTLS setting the transaction's TLS flag before the handshake
StartTLS_FlagFirst(m, cs, to, env) ==
    IF env.tadv \/ ~clientTls
    THEN IF env.failAt = "starttls"
         THEN Result([m EXCEPT !.tls = TRUE],
                     Send(cs, m.client, "STARTTLS", Empty, FALSE),
                     env.errv, 1)
         ELSE IF env.failAt = "cert"
         THEN Result([m EXCEPT !.tls = TRUE],
                     Send(cs, m.client, "STARTTLS", BadCert, FALSE),
                     ErrCertificate, 1)
         ELSE SendMail([m EXCEPT !.tls = TRUE],
                       [Send(cs, m.client, "STARTTLS", Empty, TRUE)
                           EXCEPT ![m.client].tls = TRUE],
                       to, env)
    ELSE SendMail(m, cs, to, env)

\* cfg is the zero tls.Config: the certificate is always verified
StartTLS(m, cs, to, env) ==
    IF env.tadv \/ ~clientTls
    THEN IF env.failAt = "starttls"
         THEN Result(m, Send(cs, m.client, "STARTTLS", Empty, FALSE),
                     env.errv, 1)
         ELSE IF env.failAt = "cert"
         THEN Result(m, Send(cs, m.client, "STARTTLS", BadCert, FALSE),
                     ErrCertificate, 1)
         ELSE SendMail([m EXCEPT !.tls = TRUE],
                       [Send(cs, m.client, "STARTTLS", Empty, TRUE)
                           EXCEPT ![m.client].tls = TRUE],
                       to, env)
    ELSE SendMail(m, cs, to, env)

\* XCLIENT whose failure is passed over
xclient_IgnoreFailure(m, cs, to, env) ==
    IF env.xadv
    THEN StartTLS(m, Send(cs, m.client, "XCLIENT", Empty,
                          env.failAt # "xclient"), to, env)
    ELSE StartTLS(m, cs, to, env)

xclient(m, cs, to, env) ==
    IF env.xadv
    THEN IF env.failAt = "xclient"
         THEN Result(m, Send(cs, m.client, "XCLIENT", Empty, FALSE),
                     ErrTransport, 1)
         ELSE StartTLS(m, Send(cs, m.client, "XCLIENT", Empty, TRUE), to, env)
    ELSE StartTLS(m, cs, to, env)

Hello(m, cs, to, env) ==
    IF env.failAt = "hello"
    THEN Result(m, Send(cs, m.client, "EHLO", Empty, FALSE), env.errv, 1)
    ELSE xclient(m, [Send(cs, m.client, "EHLO", Empty, TRUE)
                        EXCEPT ![m.client].ext = Extensions(env)], to, env)

Dial(m, cs, to, env) ==
    IF env.failAt = "dial"
    THEN Result(m, cs, env.errv, 1)
    ELSE Hello([m EXCEPT !.client = Len(cs) + 1],
               Append(cs, NewConn(m.server)), to, env)

\* Rcpt handing the resolver's not-found on like any other error
ProxyRcpt_NotFoundAsError(m0, cs, to, env) ==
    LET m == [m0 EXCEPT !.rcpts = Append(@, to)] IN
    IF m.client = NoClient
    THEN LET r == getServer(to, env.failing) IN
         IF r.err # Nil
         THEN Result(m, cs, r.err, 1)
         ELSE Dial([m EXCEPT !.server = r.server], cs, to, env)
    ELSE ForwardRcpt(m, cs, to, env, 0)

ProxyRcpt(m0, cs, to, env) ==
    LET m == [m0 EXCEPT !.rcpts = Append(@, to)] IN
    IF m.client = NoClient
    THEN LET r == getServer(to, env.failing) IN
         IF r.err = ErrNoServerFound
         THEN Result(m, cs, ErrRelayAccessDenied, 1)
         ELSE IF r.err # Nil
         THEN Result(m, cs, r.err, 1)
         ELSE Dial([m EXCEPT !.server = r.server], cs, to, env)
    ELSE ForwardRcpt(m, cs, to, env, 0)

\* Data dropping the error of w.Close
ProxyData_IgnoreClose(m, cs, env) ==
    IF m.client = NoClient
    THEN Result(m, cs, OtherError("SMTP client is unexpectedly nil"), 0)
    ELSE IF env.failAt = "data"
    THEN Result(m, Send(cs, m.client, "DATA", Empty, FALSE), env.errv, 0)
    ELSE LET cs1 == Send(cs, m.client, "DATA", Empty, TRUE) IN
         IF env.failAt = "copy"
         THEN Result(m, Send(cs1, m.client, "BODY", Empty, FALSE),
                     env.errv, 0)
         ELSE Result(m, Send(Send(cs1, m.client, "BODY", Empty, TRUE),
                             m.client, "DOT", Empty, env.failAt # "close"),
                     Nil, 0)

\* Data taking a transaction without client for delivered
ProxyData_NilIsSuccess(m, cs, env) ==
    IF m.client = NoClient
    THEN Result(m, cs, Nil, 0)
    ELSE IF env.failAt = "data"
    THEN Result(m, Send(cs, m.client, "DATA", Empty, FALSE), env.errv, 0)
    ELSE LET cs1 == Send(cs, m.client, "DATA", Empty, TRUE) IN
         IF env.failAt = "copy"
         THEN Result(m, Send(cs1, m.client, "BODY", Empty, FALSE),
                     env.errv, 0)
         ELSE LET cs2 == Send(cs1, m.client, "BODY", Empty, TRUE) IN
              IF env.failAt = "close"
              THEN Result(m, Send(cs2, m.client, "DOT", Empty, FALSE),
                          env.errv, 0)
              ELSE Result(m, Send(cs2, m.client, "DOT", Empty, TRUE), Nil, 0)

ProxyData(m, cs, env) ==
    IF m.client = NoClient
    THEN Result(m, cs, OtherError("SMTP client is unexpectedly nil"), 0)
    ELSE IF env.failAt = "data"
    THEN Result(m, Send(cs, m.client, "DATA", Empty, FALSE), env.errv, 0)
    ELSE LET cs1 == Send(cs, m.client, "DATA", Empty, TRUE) IN
         IF env.failAt = "copy"
         THEN Result(m, Send(cs1, m.client, "BODY", Empty, FALSE),
                     env.errv, 0)
         ELSE LET cs2 == Send(cs1, m.client, "BODY", Empty, TRUE) IN
              IF env.failAt = "close"
              THEN Result(m, Send(cs2, m.client, "DOT", Empty, FALSE),
                          env.errv, 0)
              ELSE Result(m, Send(cs2, m.client, "DOT", Empty, TRUE), Nil, 0)

\* Reset dialing the chosen upstream again when it holds no client
ProxyReset_Redial(m, cs, env) ==
    IF m.client = NoClient
    THEN IF m.server = Empty
         THEN Result(m, cs, Nil, 0)
         ELSE Result(m, Append(cs, NewConn(m.server)), Nil, 0)
    ELSE Result(buildZeroProxyMessage,
                CloseConn(Send(cs, m.client, "QUIT", Empty,
                               env.failAt # "quit"), m.client),
                Nil, 0)

\* Reset without the Close after a failed Quit: the connection stays open
ProxyReset_NoCloseAfterQuit(m, cs, env) ==
    IF m.client = NoClient
    THEN Result(m, cs, Nil, 0)
    ELSE IF env.failAt = "quit"
    THEN Result(buildZeroProxyMessage, Orphan(cs, m.client), Nil, 0)
    ELSE Result(buildZeroProxyMessage,
                CloseConn(Send(cs, m.client, "QUIT", Empty, TRUE), m.client),
                Nil, 0)

\* Quit, and Close when Quit failed: the connection is gone either way
ProxyReset(m, cs, env) ==
    IF m.client = NoClient
    THEN Result(m, cs, Nil, 0)
    ELSE Result(buildZeroProxyMessage,
                CloseConn(Send(cs, m.client, "QUIT", Empty,
                               env.failAt # "quit"), m.client),
                Nil, 0)

ProxyLogout(m, cs, env) ==
    IF m.client = NoClient
    THEN Result(m, cs, Nil, 0)
    ELSE Result(m,
                CloseConn(Send(cs, m.client, "QUIT", Empty,
                               env.failAt # "quit"), m.client),
                IF env.failAt = "quit" THEN env.errv ELSE Nil, 0)

----------------------------------------------------------------------------
(* LoggingSession *)

\* wrapAsSMTPError handing every error back as it is
wrapAsSMTPError_PassThrough(err) == err

\* the error handed back to the SMTP server library; lastError takes err
wrapAsSMTPError(err) ==
    CASE err.kind = "nil" -> Nil
      [] err.kind = "smtp" -> err
      [] OTHER -> ErrInternal

\* a callback as the SMTP server library saw it: the error it got back, the
\* error of the delegate behind it, and whether the callback before it was
\* the same one
Reply(op, err, raw, again) ==
    [op |-> op, err |-> err, raw |-> raw, again |-> again]

NoResolution == Resolution(Empty, Nil, <<>>)

\* strings.Join
RECURSIVE Join(_, _)
Join(elems, sep) ==
    IF Len(elems) = 0 THEN <<>>
    ELSE IF Len(elems) = 1 THEN elems[1]
    ELSE elems[1] \o sep \o Join(Tail(elems), sep)

\* Sprintf("%d %d.%d.%d %s", ...) for an SMTP error, err.Error() otherwise
formatError(err) ==
    CASE err.kind = "nil" -> <<"nil">>
      [] err.kind = "smtp" ->
           <<ToString(err.code), " ", ToString(err.enh[1]), ".",
             ToString(err.enh[2]), ".", ToString(err.enh[3]), " ", err.text>>
      [] OTHER -> <<err.text>>

formatErrorSource(err) ==
    CASE err.kind = "nil" -> ""
      [] err.kind = "smtp" -> "upstream"
      [] OTHER -> "internal"

\* log.Info(text, getCanonicalLogLineCtx()...): the context is read from the
\* delegate's msg and from lastError as they are at the call
getCanonicalLogLineCtx(text, m, last) ==
    [msg |-> text, client_tls |-> clientTls, from |-> m.from,
     to |-> Join(m.rcpts, <<",">>), upstream |-> m.server,
     upstream_tls |-> m.tls, haserr |-> last # Nil,
     error |-> IF last # Nil THEN formatError(last) ELSE <<>>,
     error_src |-> IF last # Nil THEN formatErrorSource(last) ELSE ""]

\* the callback logged no canonical line
NoLine ==
    [msg |-> "", client_tls |-> FALSE, from |-> Empty, to |-> Empty,
     upstream |-> Empty, upstream_tls |-> FALSE, haserr |-> FALSE,
     error |-> <<>>, error_src |-> ""]

----------------------------------------------------------------------------
(* the session *)

Recipients == {R_foo_tag_d, R_bar_e, R_local}

Senders == {<<"a", "@", "x">>}

Delimiters == {Empty, <<"+">>, <<"-">>}

\* the mapping chain of the session: f+t@d and f@d go to A:2525, b@e goes to
\* B (no port, tls_verify false), a recipient without domain is not found
SessionChain ==
    <<SQLMapping({Row(R_foo_d, MxA)}), CSVMapping({Upstream(K_e, MxB, FALSE)})>>

FailSets == {{}, {R_foo_d}, {K_e}}

\* the outcomes of the upstream and of the mapping queries during one call:
\* the keys whose query fails, the step that fails and with what, and the
\* extensions the upstream advertises
Envs(failsets, points, adv) ==
    [failing : failsets, failAt : points,
     errv : {UpstreamReject, ErrTransport}, xadv : adv, tadv : adv]

\* the keys of the lookups of a resolver call that failed
FailedKeys(trace) ==
    {trace[k].key : k \in {j \in 1..Len(trace) :
        trace[j].err # Nil /\ trace[j].err # ErrNoServerFound}}

\* one environment for all that differ only in what the call never reads:
\* the error of a step that does not fail or fails on the certificate, and
\* the extensions of an upstream whose greeting is never read
Canonical(env) ==
    /\ env.failAt \in {"none", "cert"} => env.errv = UpstreamReject
    /\ env.failAt \in {"dial", "hello"} => (~env.xadv /\ ~env.tadv)

\* the same for the resolver: the failing keys are those the resolution of
\* to asks for, and a resolution that ends in an error reaches no upstream
EnvsFor(to, failing) ==
    LET res == getServer(to, failing)
    IN  IF failing # FailedKeys(res.trace) THEN {}
        ELSE IF res.err # Nil
        THEN {[failing |-> failing, failAt |-> "none",
               errv |-> UpstreamReject, xadv |-> FALSE, tadv |-> FALSE]}
        ELSE {env \in Envs({failing}, {"none", "dial", "hello", "xclient",
                                       "starttls", "cert", "mail", "rcpt"},
                            BOOLEAN) : Canonical(env)}

\* establishment happens only while the transaction has no client
RcptEnvs(to) ==
    IF msg.client = NoClient
    THEN UNION {EnvsFor(to, failing) : failing \in FailSets}
    ELSE {env \in Envs({{}}, {"none", "rcpt"}, {FALSE}) : Canonical(env)}

DataEnvs ==
    {env \in Envs({{}}, {"none", "data", "copy", "close"}, {FALSE}) :
        Canonical(env)}

QuitEnvs == {env \in Envs({{}}, {"none", "quit"}, {FALSE}) : Canonical(env)}

\* the client connections that are served concurrently
SessionIds == {"s1", "s2"}

\* what AnonymousLogin builds: a LoggingSession around a ProxySession with
\* the zero message
FreshSession ==
    [msg |-> buildZeroProxyMessage, lastError |-> Nil, conns |-> <<>>,
     phase |-> "greeted", hasRcpt |-> FALSE, mails |-> 0]

\* a client connection that has no session yet
NoSession == [FreshSession EXCEPT !.phase = "new"]

MaxConns == 3

\* the client connections the listener accepts; the remote address of a
\* connection is the address object of that connection, so the connection
\* stands for its key in the registry
ConnIds == 1..MaxConns

\* no connection holds the write lock
NoWriter == 0

\* the zero logger a lookup of a missing key returns
NilLogger == 0

\* the logger NewSession makes when the registry has none
Fallback == -1

\* log.New allocates a logger of its own on every call; the logger is named
\* after the accept that made it
NewLogger(c) == c

\* the registry's variables
Registry == <<loggers, lock, pc, got>>

\* what neither the session nor the resolver touches
Others == <<sessions, Registry>>

InitOthers ==
    /\ sessions = [s \in SessionIds |-> NoSession]
    /\ loggers = <<>>
    /\ lock = [writer |-> NoWriter, readers |-> {}]
    /\ pc = [c \in ConnIds |-> "listen"]
    /\ got = [c \in ConnIds |-> NilLogger]

Init ==
    /\ InitOthers
    /\ recipientDelimiter = <<"+">>
    /\ mappings = SessionChain
    /\ clientTls \in BOOLEAN
    /\ msg = buildZeroProxyMessage
    /\ lastError = Nil
    /\ conns = <<>>
    /\ reply = Reply("none", Nil, Nil, FALSE)
    /\ phase = "greeted"
    /\ hasRcpt = FALSE
    /\ txn = 0
    /\ rin = Empty /\ rfail = {} /\ rout = NoResolution
    /\ line = NoLine /\ lines = 0

Config == <<recipientDelimiter, mappings, clientTls>>

\* the callback did not call the resolver
NoCall == /\ rin' = Empty /\ rfail' = {} /\ rout' = NoResolution

\* MAIL FROM: LoggingSession.Mail. The library accepts MAIL in a transaction
\* that is under way (no RSET in between)
Mail ==
    /\ phase \in {"greeted", "tx"}
    /\ txn < MaxMails
    /\ \E from \in Senders :
         /\ msg' = ProxyMail(from)
         /\ lastError' = Nil
         /\ reply' = Reply("Mail", wrapAsSMTPError(Nil), Nil, FALSE)
    /\ phase' = "tx"
    /\ txn' = txn + 1
    /\ conns' = Orphan(conns, msg.client)
    /\ line' = NoLine
    /\ lines' = 0
    /\ NoCall
    /\ UNCHANGED <<hasRcpt, Config, Others>>

\* RCPT TO: LoggingSession.Rcpt, handed over only after MAIL
Rcpt ==
    /\ phase = "tx"
    /\ Len(msg.rcpts) < MaxRcpts
    /\ \E to \in Recipients :
         \E env \in RcptEnvs(to) :
         \E r \in {ProxyRcpt(msg, conns, to, env)} :
         /\ msg' = r.msg
         /\ conns' = r.conns
         /\ lastError' = r.err
         /\ reply' = Reply("Rcpt", wrapAsSMTPError(r.err), r.err, FALSE)
         /\ hasRcpt' = (hasRcpt \/ r.err = Nil)
         /\ IF r.err # Nil
            THEN /\ line' = getCanonicalLogLineCtx("Message rejected",
                                                   r.msg, lastError)
                 /\ lines' = lines + 1
            ELSE /\ line' = NoLine
                 /\ lines' = lines
         /\ IF r.resolved = 1
            THEN \E res \in {getServer(to, env.failing)} :
                 /\ rin' = to
                 /\ rfail' = FailedKeys(res.trace)
                 /\ rout' = res
            ELSE NoCall
    /\ UNCHANGED <<phase, txn, Config, Others>>

\* DATA: LoggingSession.Data. The SMTP server library hands DATA to the
\* session only when a recipient of the transaction was accepted, and calls
\* Reset next
Data ==
    /\ phase = "tx"
    /\ hasRcpt
    /\ \E env \in DataEnvs :
         \E r \in {ProxyData(msg, conns, env)} :
         /\ msg' = r.msg
         /\ conns' = r.conns
         /\ lastError' = r.err
         /\ reply' = Reply("Data", wrapAsSMTPError(r.err), r.err, FALSE)
         /\ IF r.err = Nil
            THEN /\ line' = getCanonicalLogLineCtx("Message accepted",
                                                   r.msg, lastError)
                 /\ lines' = lines + 1
            ELSE /\ line' = NoLine
                 /\ lines' = lines
    /\ phase' = "afterData"
    /\ NoCall
    /\ UNCHANGED <<hasRcpt, txn, Config, Others>>

\* LoggingSession.Reset: on RSET, and after each DATA
Reset ==
    /\ phase \in {"greeted", "tx", "afterData"}
    /\ \E env \in QuitEnvs :
         \E r \in {ProxyReset(msg, conns, env)} :
         /\ msg' = r.msg
         /\ conns' = r.conns
    /\ lastError' = Nil
    /\ reply' = Reply("Reset", Nil, Nil, reply.op = "Reset")
    /\ phase' = "greeted"
    /\ hasRcpt' = FALSE
    /\ line' = NoLine
    /\ NoCall
    /\ UNCHANGED <<txn, lines, Config, Others>>

\* LoggingSession.Logout: the client quits or disconnects
Logout ==
    /\ phase \in {"greeted", "tx"}
    /\ \E env \in QuitEnvs :
         \E r \in {ProxyLogout(msg, conns, env)} :
         /\ msg' = r.msg
         /\ conns' = r.conns
         /\ reply' = Reply("Logout", wrapAsSMTPError(r.err), r.err, FALSE)
         /\ IF lastError # Nil
            THEN /\ line' = getCanonicalLogLineCtx("Message rejected",
                                                   r.msg, lastError)
                 /\ lines' = lines + 1
            ELSE /\ line' = NoLine
                 /\ lines' = lines
    /\ lastError' = Nil
    /\ phase' = "closed"
    /\ NoCall
    /\ UNCHANGED <<hasRcpt, txn, Config, Others>>

Next == Mail \/ Rcpt \/ Data \/ Reset \/ Logout

Spec == Init /\ [][Next]_vars

----------------------------------------------------------------------------
(* the resolver on its own: getServer over every chain of at most          *)
(* MaxChain mappings drawn from the mappings below                         *)

MaxChain == 2

ResolveRows == {Row(R_foo_tag_d, MxC), Row(R_foo_d, MxA), Row(K_d, MxB)}

ResolveMappings ==
    {CSVMapping(rows) : rows \in SUBSET ResolveRows}
        \cup {SQLMapping(rows) : rows \in SUBSET ResolveRows}
        \cup {StaticMapping(MxS)}

ResolveChains ==
    UNION {[1..n -> ResolveMappings] : n \in 1..MaxChain}

ResolveRecipients ==
    {R_foo_tag_d, R_foo_d, R_bar_e, R_two_tags, R_local}

ResolveFailSets == {{}, {R_foo_tag_d}, {R_foo_d}, {K_d}}

InitResolve ==
    /\ InitOthers
    /\ recipientDelimiter \in Delimiters
    /\ mappings \in ResolveChains
    /\ clientTls = FALSE
    /\ msg = buildZeroProxyMessage
    /\ lastError = Nil
    /\ conns = <<>>
    /\ reply = Reply("none", Nil, Nil, FALSE)
    /\ phase = "greeted"
    /\ hasRcpt = FALSE
    /\ txn = 0
    /\ rin = Empty /\ rfail = {} /\ rout = NoResolution
    /\ line = NoLine /\ lines = 0

\* one call of ProxySession.getServer
Resolve ==
    /\ \E recipient \in ResolveRecipients, failing \in ResolveFailSets :
         \E res \in {getServer(recipient, failing)} :
         /\ rin' = recipient
         /\ rfail' = FailedKeys(res.trace)
         /\ rout' = res
    /\ UNCHANGED <<msg, lastError, conns, reply, phase, hasRcpt, txn, line,
                   lines, Config, Others>>

NextResolve == Resolve

SpecResolve == InitResolve /\ [][NextResolve]_vars

----------------------------------------------------------------------------
(* concurrent sessions: every client connection gets its own LoggingSession *)
(* and ProxySession from AnonymousLogin; the backend's mapping chain and    *)
(* recipient delimiter are what they share. The callbacks of one session   *)
(* run one after the other, those of different sessions interleave.        *)

SessionRecipients == {R_bar_e}

SessionEnvs(points) ==
    [failing : {{}}, failAt : points, errv : {ErrTransport},
     xadv : {FALSE}, tadv : {FALSE}]

\* the single session's variables, at rest while the sessions run
Single == <<msg, lastError, conns, reply, phase, hasRcpt, txn, rin, rfail,
            rout, line, lines>>

InitSessions ==
    /\ recipientDelimiter = <<"+">>
    /\ mappings = SessionChain
    /\ clientTls = TRUE
    /\ msg = buildZeroProxyMessage
    /\ lastError = Nil
    /\ conns = <<>>
    /\ reply = Reply("none", Nil, Nil, FALSE)
    /\ phase = "greeted"
    /\ hasRcpt = FALSE
    /\ txn = 0
    /\ rin = Empty /\ rfail = {} /\ rout = NoResolution
    /\ line = NoLine /\ lines = 0
    /\ InitOthers

AnonymousLogin(s) ==
    /\ sessions[s].phase = "new"
    /\ sessions' = [sessions EXCEPT ![s] = FreshSession]
    /\ UNCHANGED <<Single, Config, Registry>>

\* Mail keeping the message where every session finds it
SessionMail_SharedMessage(s) ==
    /\ sessions[s].phase \in {"greeted", "tx"}
    /\ sessions[s].mails < MaxMails
    /\ \E from \in Senders :
         sessions' =
             [t \in SessionIds |->
                 IF t = s
                 THEN [sessions[s] EXCEPT
                          !.msg = ProxyMail(from),
                          !.lastError = Nil,
                          !.conns = Orphan(@, sessions[s].msg.client),
                          !.phase = "tx",
                          !.mails = @ + 1]
                 ELSE IF sessions[t].phase \in {"greeted", "tx"}
                 THEN [sessions[t] EXCEPT !.msg = ProxyMail(from)]
                 ELSE sessions[t]]
    /\ UNCHANGED <<Single, Config, Registry>>

SessionMail(s) ==
    /\ sessions[s].phase \in {"greeted", "tx"}
    /\ sessions[s].mails < MaxMails
    /\ \E from \in Senders :
         sessions' = [sessions EXCEPT ![s] =
             [@ EXCEPT !.msg = ProxyMail(from),
                       !.lastError = Nil,
                       !.conns = Orphan(@, sessions[s].msg.client),
                       !.phase = "tx",
                       !.mails = @ + 1]]
    /\ UNCHANGED <<Single, Config, Registry>>

SessionRcpt(s) ==
    /\ sessions[s].phase = "tx"
    /\ Len(sessions[s].msg.rcpts) < MaxRcpts
    /\ \E to \in SessionRecipients, env \in SessionEnvs({"none", "dial"}) :
         \E r \in {ProxyRcpt(sessions[s].msg, sessions[s].conns, to, env)} :
         sessions' = [sessions EXCEPT ![s] =
             [@ EXCEPT !.msg = r.msg,
                       !.conns = r.conns,
                       !.lastError = r.err,
                       !.hasRcpt = (@ \/ r.err = Nil)]]
    /\ UNCHANGED <<Single, Config, Registry>>

SessionData(s) ==
    /\ sessions[s].phase = "tx"
    /\ sessions[s].hasRcpt
    /\ \E env \in SessionEnvs({"none", "close"}) :
         \E r \in {ProxyData(sessions[s].msg, sessions[s].conns, env)} :
         sessions' = [sessions EXCEPT ![s] =
             [@ EXCEPT !.msg = r.msg,
                       !.conns = r.conns,
                       !.lastError = r.err,
                       !.phase = "afterData"]]
    /\ UNCHANGED <<Single, Config, Registry>>

SessionReset(s) ==
    /\ sessions[s].phase \in {"tx", "afterData"}
    /\ \E env \in SessionEnvs({"none"}) :
         \E r \in {ProxyReset(sessions[s].msg, sessions[s].conns, env)} :
         sessions' = [sessions EXCEPT ![s] =
             [@ EXCEPT !.msg = r.msg,
                       !.conns = r.conns,
                       !.lastError = Nil,
                       !.phase = "greeted",
                       !.hasRcpt = FALSE]]
    /\ UNCHANGED <<Single, Config, Registry>>

SessionLogout(s) ==
    /\ sessions[s].phase \in {"greeted", "tx"}
    /\ \E env \in SessionEnvs({"none"}) :
         \E r \in {ProxyLogout(sessions[s].msg, sessions[s].conns, env)} :
         sessions' = [sessions EXCEPT ![s] =
             [@ EXCEPT !.msg = r.msg,
                       !.conns = r.conns,
                       !.lastError = Nil,
                       !.phase = "closed"]]
    /\ UNCHANGED <<Single, Config, Registry>>

NextSessions ==
    \E s \in SessionIds :
        \/ AnonymousLogin(s)
        \/ SessionMail(s)
        \/ SessionRcpt(s)
        \/ SessionData(s)
        \/ SessionReset(s)
        \/ SessionLogout(s)

SpecSessions == InitSessions /\ [][NextSessions]_vars

----------------------------------------------------------------------------
(* the session-logger registry: SessionListener.Accept registers a logger   *)
(* under the connection's remote address, NewSession looks it up and        *)
(* SessionConn.Close removes it. Every connection runs in a goroutine of    *)
(* its own; a step is one statement of New, Get or Delete, so that the      *)
(* goroutines interleave between taking the lock, the map access and the    *)
(* deferred unlock.                                                         *)

\* sync.RWMutex: Lock waits until nobody holds the lock, RLock until no
\* writer holds it
Lock(c) ==
    /\ lock.writer = NoWriter
    /\ lock.readers = {}
    /\ lock' = [lock EXCEPT !.writer = c]

Unlock(c) == lock' = [lock EXCEPT !.writer = NoWriter]

RLock(c) ==
    /\ lock.writer = NoWriter
    /\ lock' = [lock EXCEPT !.readers = @ \cup {c}]

RUnlock(c) == lock' = [lock EXCEPT !.readers = @ \ {c}]

\* s.loggers[addr] = l
Store(m, addr, l) ==
    [a \in DOMAIN m \cup {addr} |-> IF a = addr THEN l ELSE m[a]]

\* delete(s.loggers, addr)
Remove(m, addr) == [a \in DOMAIN m \ {addr} |-> m[a]]

\* l, ok := s.loggers[addr]
Load(m, addr) ==
    IF addr \in DOMAIN m THEN [l |-> m[addr], ok |-> TRUE]
    ELSE [l |-> NilLogger, ok |-> FALSE]

InitRegistry == InitSessions

\* what the registry leaves alone
Apart == <<Single, Config, sessions>>

\* l.l.Accept() hands out the client connection c
Accept(c) ==
    /\ pc[c] = "listen"
    /\ pc' = [pc EXCEPT ![c] = "new"]
    /\ UNCHANGED <<loggers, lock, got, Apart>>

\* l.l.Accept() fails: c is nil, and c.RemoteAddr() in the next statement
\* is a method call on a nil interface, which panics in the goroutine that
\* serves the listener
AcceptFails(c) ==
    /\ pc[c] = "listen"
    /\ pc' = [pc EXCEPT ![c] = "panic"]
    /\ UNCHANGED <<loggers, lock, got, Apart>>

NewLock(c) ==
    /\ pc[c] = "new"
    /\ Lock(c)
    /\ pc' = [pc EXCEPT ![c] = "newLocked"]
    /\ UNCHANGED <<loggers, got, Apart>>

NewStore(c) ==
    /\ pc[c] = "newLocked"
    /\ loggers' = Store(loggers, c, NewLogger(c))
    /\ pc' = [pc EXCEPT ![c] = "newStored"]
    /\ UNCHANGED <<lock, got, Apart>>

\* the deferred Unlock; Accept returns the SessionConn
NewUnlock(c) ==
    /\ pc[c] = "newStored"
    /\ Unlock(c)
    /\ pc' = [pc EXCEPT ![c] = "accepted"]
    /\ UNCHANGED <<loggers, got, Apart>>

\* Get that reads the map without taking the lock
GetRLock_Unlocked(c) ==
    /\ pc[c] \in {"accepted", "session"}
    /\ pc' = [pc EXCEPT ![c] = "getLocked"]
    /\ UNCHANGED <<loggers, lock, got, Apart>>

\* NewSession calls Get at the client's EHLO
GetRLock(c) ==
    /\ pc[c] \in {"accepted", "session"}
    /\ RLock(c)
    /\ pc' = [pc EXCEPT ![c] = "getLocked"]
    /\ UNCHANGED <<loggers, got, Apart>>

\* the map read; NewSession falls back to a logger of its own when !ok
GetLoad(c) ==
    /\ pc[c] = "getLocked"
    /\ \E r \in {Load(loggers, c)} :
         got' = [got EXCEPT ![c] = IF r.ok THEN r.l ELSE Fallback]
    /\ pc' = [pc EXCEPT ![c] = "getLoaded"]
    /\ UNCHANGED <<loggers, lock, Apart>>

GetRUnlock(c) ==
    /\ pc[c] = "getLoaded"
    /\ RUnlock(c)
    /\ pc' = [pc EXCEPT ![c] = "session"]
    /\ UNCHANGED <<loggers, got, Apart>>

\* SessionConn.Close: c.c.Close(), then Delete
Close(c) ==
    /\ pc[c] \in {"accepted", "session"}
    /\ pc' = [pc EXCEPT ![c] = "delete"]
    /\ UNCHANGED <<loggers, lock, got, Apart>>

DeleteLock(c) ==
    /\ pc[c] = "delete"
    /\ Lock(c)
    /\ pc' = [pc EXCEPT ![c] = "deleteLocked"]
    /\ UNCHANGED <<loggers, got, Apart>>

\* Delete that reads the entry and leaves it in the map
DeleteRemove_Keep(c) ==
    /\ pc[c] = "deleteLocked"
    /\ pc' = [pc EXCEPT ![c] = "deleteRemoved"]
    /\ UNCHANGED <<loggers, lock, got, Apart>>

DeleteRemove(c) ==
    /\ pc[c] = "deleteLocked"
    /\ loggers' = Remove(loggers, c)
    /\ pc' = [pc EXCEPT ![c] = "deleteRemoved"]
    /\ UNCHANGED <<lock, got, Apart>>

\* the deferred Unlock; Close returns
DeleteUnlock(c) ==
    /\ pc[c] = "deleteRemoved"
    /\ Unlock(c)
    /\ pc' = [pc EXCEPT ![c] = "closed"]
    /\ UNCHANGED <<loggers, got, Apart>>

\* no goroutine has panicked: a panic that is not recovered ends the
\* process
Alive == \A c \in ConnIds : pc[c] # "panic"

NextRegistry ==
    /\ Alive
    /\ \E c \in ConnIds :
        \/ Accept(c)
        \/ AcceptFails(c)
        \/ NewLock(c)
        \/ NewStore(c)
        \/ NewUnlock(c)
        \/ GetRLock(c)
        \/ GetLoad(c)
        \/ GetRUnlock(c)
        \/ Close(c)
        \/ DeleteLock(c)
        \/ DeleteRemove(c)
        \/ DeleteUnlock(c)

SpecRegistry == InitRegistry /\ [][NextRegistry]_vars

----------------------------------------------------------------------------
(* what the properties below speak of *)

Min(S) == CHOOSE x \in S : \A y \in S : x <= y

Positions(cmds, cmd) == {k \in 1..Len(cmds) : cmds[k].cmd = cmd}

OpenConns == {i \in 1..Len(conns) : conns[i].open}

\* the connections dialed in the current transaction
TxnConns == {i \in 1..Len(conns) : conns[i].txn = txn}

RECURSIVE BodiesFrom(_, _)
BodiesFrom(cs, i) ==
    IF i > Len(cs) THEN 0
    ELSE Cardinality(Positions(cs[i].cmds, "BODY")) + BodiesFrom(cs, i + 1)

\* how many message bodies the upstream connections still in use were sent
Bodies(cs) == BodiesFrom(cs, 1)

\* the tail of what was sent on the transaction's client is DATA, the whole
\* body and the final dot, each answered positively
Delivered(m, cs) ==
    /\ m.client # NoClient
    /\ LET cmds == cs[m.client].cmds
           n == Len(cmds)
       IN  /\ n >= 3
           /\ cmds[n - 2] = Cmd("DATA", Empty, TRUE)
           /\ cmds[n - 1] = Cmd("BODY", Empty, TRUE)
           /\ cmds[n] = Cmd("DOT", Empty, TRUE)

\* the candidate keys of section 4.1: the full recipient, the recipient
\* without its delimiter tag, the bare domain
FirstPos(s, c) ==
    IF Contains(s, c) THEN Min({i \in 1..Len(s) : s[i] = c}) ELSE 0

StrippedKeys(recipient) ==
    IF recipientDelimiter = Empty THEN <<>>
    ELSE LET at == FirstPos(recipient, "@")
             d == FirstPos(recipient, recipientDelimiter[1])
         IN  IF at > 0 /\ d > 0 /\ d < at
             THEN <<SubSeq(recipient, 1, d - 1)
                       \o SubSeq(recipient, at, Len(recipient))>>
             ELSE <<>>

DomainKeys(recipient) ==
    LET at == FirstPos(recipient, "@") IN
    IF at > 0 THEN <<SubSeq(recipient, at + 1, Len(recipient))>> ELSE <<>>

CandidateKeys(recipient) ==
    <<recipient>> \o StrippedKeys(recipient) \o DomainKeys(recipient)

WithPort(server) ==
    IF Contains(server, ":") THEN server ELSE server \o <<":", "2", "5">>

\* the candidate keys for which the mapping has an upstream, by position
Hits(mapping, recipient) ==
    {k \in 1..Len(CandidateKeys(recipient)) :
        MappingGet(mapping, CandidateKeys(recipient)[k], {}).err = Nil}

HitServer(mapping, recipient, k) ==
    WithPort(MappingGet(mapping, CandidateKeys(recipient)[k], {}).server)

Failed(lookup) == lookup.err # Nil /\ lookup.err # ErrNoServerFound

FailedLookups(trace) == {k \in 1..Len(trace) : Failed(trace[k])}

\* the tls_verify flag of the mapping records that name the upstream
TlsVerifyOf(server) ==
    \A i \in 1..Len(mappings) :
        \A r \in mappings[i].servers :
            WithPort(r.server) = server => r.tlsVerify

\* a transaction in which some Rcpt ran and none succeeded
FailedTxn == phase = "tx" /\ ~hasRcpt /\ Len(msg.rcpts) >= 1

Last(cmds) == cmds[Len(cmds)]

\* the SMTP errors an upstream returns in the model
UpstreamReplies == {UpstreamReject}

\* the step dialed a new upstream connection
Dialed(cs, cs2) == Len(cs2) = Len(cs) + 1

Advertises(conn, extension) ==
    \E k \in 1..Len(conn.ext) : conn.ext[k] = extension

\* establishment on the connection got as far as the STARTTLS decision:
\* EHLO succeeded and XCLIENT, where it was sent, succeeded too
ReachedStartTLS(conn) ==
    /\ \E k \in Positions(conn.cmds, "EHLO") : conn.cmds[k].ok
    /\ \A k \in Positions(conn.cmds, "XCLIENT") : conn.cmds[k].ok

\* the place of a command in the establishment sequence of section 4.2
Rank(cmd) ==
    CASE cmd = "EHLO" -> 1
      [] cmd = "STARTTLS" -> 2
      [] cmd = "XCLIENT" -> 3
      [] cmd = "MAIL" -> 4
      [] cmd = "RCPT" -> 5
      [] OTHER -> 6

\* the connection the step dialed
NewConnOf(cs2) == cs2[Len(cs2)]

----------------------------------------------------------------------------
(* properties *)

\* C1: LoggingSession.Data reports success to the client only if, in that
\* call, the upstream accepted DATA, the whole body was copied to the
\* upstream writer and the final dot was answered positively; in every other
\* case the client receives an error, and no callback other than Data sends
\* a message body to an upstream (a body goes out at most once per Data).
C1_DataVerdict ==
    [][/\ reply'.op = "Data" =>
            /\ (reply'.err = Nil) <=> Delivered(msg', conns')
            /\ reply'.err # Nil => reply'.err.kind = "smtp"
            /\ Bodies(conns') <= Bodies(conns) + 1
       /\ reply'.op # "Data" => Bodies(conns') <= Bodies(conns)]_vars

\* a Data call that the upstream accepted to the end
C1_Witness == reply.op = "Data" /\ reply.err = Nil /\ Delivered(msg, conns)

\* C2: in a transaction in which Data succeeds, exactly one upstream
\* connection was established for the transaction, and it received exactly
\* one MAIL FROM, which succeeded, before any RCPT was forwarded to it.
C2_OneMailBeforeRcpt ==
    (reply.op = "Data" /\ reply.err = Nil) =>
        /\ Cardinality(TxnConns) = 1
        /\ \A i \in TxnConns :
             LET cmds == conns[i].cmds
                 mails == Positions(cmds, "MAIL")
             IN  /\ Cardinality(mails) = 1
                 /\ \A k \in mails : cmds[k].ok
                 /\ \A k \in mails, r \in Positions(cmds, "RCPT") : k < r

\* C3: while the session is live, a non-null msg.client means that
\* msg.server is set and that EHLO, the XCLIENT and STARTTLS steps that were
\* taken and MAIL FROM all succeeded on that connection.
C3_ClientMeansEstablished ==
    (phase # "closed" /\ msg.client # NoClient) =>
        /\ msg.server # Empty
        /\ LET cmds == conns[msg.client].cmds IN
           /\ \E k \in Positions(cmds, "EHLO") : cmds[k].ok
           /\ \E k \in Positions(cmds, "MAIL") : cmds[k].ok
           /\ \A k \in 1..Len(cmds) :
                cmds[k].cmd \in {"EHLO", "XCLIENT", "STARTTLS", "MAIL"}
                    => cmds[k].ok

\* C4: at every instant at most one upstream connection opened by the
\* session is open.
C4_AtMostOneOpen == Cardinality(OpenConns) <= 1

\* C5: within one transaction msg.server is assigned once: a Rcpt of a
\* transaction whose msg.server is already set neither calls the resolver
\* nor changes msg.server.
C5_ServerSetOnce ==
    [][(reply'.op = "Rcpt" /\ msg.server # Empty) =>
          (rout' = NoResolution /\ msg'.server = msg.server)]_vars

\* C6: only the first RCPT TO of a transaction selects the upstream: every
\* later Rcpt of the transaction leaves the resolver alone and is forwarded
\* to the upstream connection of the transaction, whose answer is what the
\* client sees.
C6_FirstRcptSelects ==
    [][(reply'.op = "Rcpt" /\ Len(msg.rcpts) >= 1) =>
          /\ rout' = NoResolution
          /\ msg.client # NoClient
          /\ msg'.client = msg.client
          /\ \E ok \in BOOLEAN :
               /\ conns' = Send(conns, msg.client, "RCPT",
                                msg'.rcpts[Len(msg'.rcpts)], ok)
               /\ ok <=> reply'.err = Nil]_vars

\* C7: a transaction never uses or leaves open the upstream connection of
\* an earlier transaction: once a Rcpt of the transaction has run, every
\* open upstream connection is the transaction's own, dialed in it.
C7_FreshConnection ==
    reply.op = "Rcpt" =>
        \A i \in OpenConns : i = msg.client /\ conns[i].txn = txn

\* C8: within one mapping the keys are tried in the order full recipient,
\* recipient without the delimiter tag, bare domain, and the first hit is
\* returned.
C8_FullRecipientFirst ==
    (rin # Empty /\ rfail = {} /\ Len(mappings) = 1) =>
        LET hits == Hits(mappings[1], rin) IN
        IF hits = {} THEN rout.err = ErrNoServerFound
        ELSE /\ rout.err = Nil
             /\ rout.server = HitServer(mappings[1], rin, Min(hits))

\* C9: getServer returns an upstream of the first mapping, in chain order,
\* that has a hit for a candidate key of the recipient, and NotFound only
\* when every mapping misses every candidate key.
C9_FirstMappingWithHit ==
    (rin # Empty /\ rfail = {}) =>
        LET hitting == {i \in 1..Len(mappings) : Hits(mappings[i], rin) # {}}
        IN  IF hitting = {} THEN rout.err = ErrNoServerFound
            ELSE /\ rout.err = Nil
                 /\ \E k \in Hits(mappings[Min(hitting)], rin) :
                      rout.server = HitServer(mappings[Min(hitting)], rin, k)

\* C10: when a lookup fails with an operational error, it is the last
\* lookup the resolver makes (no later key, no later mapping), no upstream
\* is dialed and the client receives the generic 450.
C10_LookupErrorAborts ==
    [][(reply'.op = "Rcpt" /\ FailedLookups(rout'.trace) # {}) =>
          /\ FailedLookups(rout'.trace) = {Len(rout'.trace)}
          /\ conns' = conns
          /\ msg'.client = NoClient
          /\ reply'.err = ErrInternal]_vars

\* a Rcpt whose lookup failed although a later mapping has the domain
C10_Witness ==
    /\ reply.op = "Rcpt"
    /\ reply.err = ErrInternal
    /\ FailedLookups(rout.trace) # {}
    /\ \E i \in 1..Len(mappings) :
         /\ i > rout.trace[Len(rout.trace)].m
         /\ Hits(mappings[i], rin) # {}

C12_StartTLSIffAdvertisedAndClientTls ==
    [][(reply'.op = "Rcpt" /\ Dialed(conns, conns')) =>
          LET conn == conns'[Len(conns')] IN
          ReachedStartTLS(conn) =>
              (Positions(conn.cmds, "STARTTLS") # {}
                  <=> (Advertises(conn, "STARTTLS") /\ clientTls))]_vars

\* C13: on a connection whose upstream advertised STARTTLS, every MAIL FROM
\* is sent after a STARTTLS that succeeded, whether or not the client
\* connection is TLS.
C13_StartTLSBeforeMail ==
    \A i \in 1..Len(conns) :
        Advertises(conns[i], "STARTTLS") =>
            \A k \in Positions(conns[i].cmds, "MAIL") :
                \E j \in Positions(conns[i].cmds, "STARTTLS") :
                    j < k /\ conns[i].cmds[j].ok

\* a plaintext client whose upstream advertised STARTTLS and got MAIL FROM
C13_Witness ==
    /\ ~clientTls
    /\ \E i \in 1..Len(conns) :
         /\ Advertises(conns[i], "STARTTLS")
         /\ Positions(conns[i].cmds, "MAIL") # {}
         /\ conns[i].tls

\* C14: a failed STARTTLS is fatal for the transaction: after it no MAIL
\* FROM, RCPT or DATA is sent on that connection.
C14_NoPlaintextAfterFailedStartTLS ==
    \A i \in 1..Len(conns) :
        LET cmds == conns[i].cmds IN
        \A k \in Positions(cmds, "STARTTLS") :
            ~cmds[k].ok =>
                \A j \in (k + 1)..Len(cmds) :
                    cmds[j].cmd \notin {"MAIL", "RCPT", "DATA"}

\* C15: the upstream's certificate is verified if and only if the resolved
\* upstream's tls_verify flag is true: a certificate that does not verify
\* fails STARTTLS when the flag is true and is accepted when it is false.
C15_VerifyIffTlsVerify ==
    \A i \in 1..Len(conns) :
        LET cmds == conns[i].cmds IN
        \A k \in Positions(cmds, "STARTTLS") :
            (Advertises(conns[i], "STARTTLS") /\ cmds[k].arg = BadCert) =>
                (cmds[k].ok <=> ~TlsVerifyOf(conns[i].server))

\* C16: once the transaction has its upstream client, what the client sees
\* for a RCPT and for DATA is the upstream's answer to the forwarded
\* command: success exactly when the upstream accepted it, and an SMTP error
\* of the upstream unchanged in code, enhanced code and text.
C16_UpstreamReplyPassedThrough ==
    [][(reply'.op \in {"Rcpt", "Data"} /\ msg.client # NoClient) =>
          /\ msg'.client = msg.client
          /\ Len(conns'[msg.client].cmds) > Len(conns[msg.client].cmds)
          /\ reply'.op = "Rcpt" =>
                \E ok \in BOOLEAN :
                    conns' = Send(conns, msg.client, "RCPT",
                                  Last(msg'.rcpts), ok)
          /\ reply'.op = "Data" =>
                Last(conns'[msg.client].cmds).cmd \in {"DATA", "BODY", "DOT"}
          /\ Last(conns'[msg.client].cmds).ok <=> reply'.err = Nil
          /\ reply'.raw.kind = "smtp" =>
                /\ reply'.err.code = reply'.raw.code
                /\ reply'.err.enh = reply'.raw.enh
                /\ reply'.err.text = reply'.raw.text]_vars

\* a later RCPT of a transaction that the upstream rejected with its 550
C16_Witness ==
    /\ reply.op = "Rcpt"
    /\ Len(msg.rcpts) >= 2
    /\ rout = NoResolution
    /\ msg.client # NoClient
    /\ Last(conns[msg.client].cmds) = Cmd("RCPT", Last(msg.rcpts), FALSE)
    /\ reply.err = UpstreamReject

\* C17: what Mail, Rcpt, Data and Logout return to the client is nil for
\* nil, the underlying error itself when that is an SMTP error, and
\* otherwise exactly 450 "Internal server error. Please try again later."
\* with no enhanced code.
C17_OnlySMTPErrors ==
    [][reply'.op \in {"Mail", "Rcpt", "Data", "Logout"} =>
          reply'.err =
              CASE reply'.raw.kind = "nil" -> Nil
                [] reply'.raw.kind = "smtp" -> reply'.raw
                [] OTHER ->
                     SMTPError(450, NoEnhancedCode,
                               "Internal server error. Please try again later.")
      ]_vars

\* a Logout whose upstream QUIT failed with an error that is not an SMTP
\* error
C17_Witness ==
    /\ reply.op = "Logout"
    /\ reply.raw.kind = "other"
    /\ reply.err.code = 450
    /\ reply.err.enh = NoEnhancedCode

\* C18: after Logout returned, no upstream connection opened by the session
\* is open.
C18_NothingOpenAfterLogout == phase = "closed" => OpenConns = {}

\* C19: a transaction in which some Rcpt failed and none succeeded has a
\* null upstream client, and a Reset that follows leaves no open upstream
\* connection and an empty transaction.
C19_FailedTxnResetsCleanly ==
    [][FailedTxn =>
          /\ msg.client = NoClient
          /\ reply'.op = "Reset" =>
                /\ \A i \in 1..Len(conns') : ~conns'[i].open
                /\ msg' = buildZeroProxyMessage]_vars

\* C20: Reset in a state with no upstream client opens no upstream
\* connection, sends nothing to an upstream and returns no error, and
\* applied again it leaves the session as the first Reset left it.
C20_ResetIdempotent ==
    [][(reply'.op = "Reset" /\ msg.client = NoClient) =>
          /\ conns' = conns
          /\ reply'.err = Nil
          /\ msg'.client = NoClient
          /\ phase' = "greeted"
          /\ phase = "greeted" =>
                UNCHANGED <<msg, lastError, phase, hasRcpt, txn>>]_vars

\* a Reset right after a Reset, with no upstream client
C20_Witness ==
    /\ reply.op = "Reset"
    /\ reply.again
    /\ phase = "greeted"
    /\ msg.client = NoClient

\* C21: Data called while the transaction has no upstream client returns an
\* error that is not an SMTP error, contacts no upstream and sends no body;
\* the client sees the generic 450.
C21_DataWithoutClient ==
    [][(reply'.op = "Data" /\ msg.client = NoClient) =>
          /\ reply'.raw.kind = "other"
          /\ conns' = conns
          /\ msg'.client = NoClient
          /\ reply'.err =
                SMTPError(450, NoEnhancedCode,
                          "Internal server error. Please try again later.")
      ]_vars

\* a Data of a transaction that a second MAIL left without client
C21_Witness ==
    /\ reply.op = "Data"
    /\ msg.client = NoClient
    /\ reply.err.code = 450
    /\ Bodies(conns) = 0

\* C22: a transaction that ends with a verdict yields exactly one canonical
\* line: never two, "Message accepted" after a successful Data, and one
\* "Message rejected" by the time a transaction with a failed command or a
\* rejected DATA is reset or the client logs out.
C22_OneCanonicalLine ==
    [][/\ lines' <= 1
       /\ (reply'.op = "Data" /\ reply'.err = Nil) =>
             (lines' = 1 /\ line'.msg = "Message accepted")
       /\ (/\ reply.op \in {"Rcpt", "Data"}
           /\ reply.err # Nil
           /\ reply'.op \in {"Reset", "Logout"}) => lines' = 1]_vars

\* C23: a "Message rejected" line logged for a failing Rcpt carries the
\* formatted error and the error_src of that Rcpt's error.
C23_RejectedLineHasItsError ==
    [][(reply'.op = "Rcpt" /\ line'.msg = "Message rejected") =>
          /\ line'.haserr
          /\ line'.error = formatError(reply'.raw)
          /\ line'.error_src = formatErrorSource(reply'.raw)]_vars

\* C24: error_src is "upstream" exactly when the logged error is an SMTP
\* error returned by the upstream, and "internal" for every other error,
\* the proxy's own 554 relay-denied included.
C24_ErrorSrcUpstreamIffFromUpstream ==
    line.haserr =>
        IF \E e \in UpstreamReplies : line.error = formatError(e)
        THEN line.error_src = "upstream"
        ELSE line.error_src = "internal"

\* C25: once a command of a transaction has failed, lastError keeps that
\* first error through the later Rcpt and Data of the transaction.
C25_FirstErrorKept ==
    [][(lastError # Nil /\ reply'.op \in {"Rcpt", "Data"}) =>
          lastError' = lastError]_vars

C27_ServerHasPort ==
    (rin # Empty /\ rout.err = Nil) =>
        LET hit == Last(rout.trace)
            server == MappingGet(mappings[hit.m], hit.key, {}).server
        IN  /\ Contains(rout.server, ":")
            /\ IF Contains(server, ":")
               THEN rout.server = server
               ELSE rout.server = server \o <<":", "2", "5">>

\* a resolution to a mapping record whose server has no port
C27_Witness ==
    /\ rin # Empty
    /\ rout.err = Nil
    /\ ~Contains(MappingGet(mappings[Last(rout.trace).m],
                            Last(rout.trace).key, {}).server, ":")
    /\ rout.server = <<"B", ":", "2", "5">>

\* C28: sessions are isolated: a command of one session changes that
\* session's transaction, upstream connections and last error only; every
\* other session's state, the mapping chain and the recipient delimiter
\* stay as they are.
C28_SessionsIsolated ==
    [][/\ \A s, t \in SessionIds :
            (s # t /\ sessions'[s] # sessions[s]) =>
                sessions'[t] = sessions[t]
       /\ mappings' = mappings
       /\ recipientDelimiter' = recipientDelimiter]_vars

\* two sessions in a transaction at once, one with an upstream client and
\* recipients, the other with a failed Rcpt and no client
C28_Witness ==
    \E s, t \in SessionIds :
        /\ s # t
        /\ sessions[s].phase = "tx"
        /\ sessions[s].msg.client # NoClient
        /\ sessions[t].phase = "tx"
        /\ sessions[t].msg.client = NoClient
        /\ sessions[t].lastError # Nil
        /\ sessions[t].msg.rcpts # sessions[s].msg.rcpts

\* connection c is between the return of Accept and the call of Close
Open(c) == pc[c] \in {"accepted", "getLocked", "getLoaded", "session"}

\* connection c is between Lock and Unlock of New or Delete
InWrite(c) ==
    pc[c] \in {"newLocked", "newStored", "deleteLocked", "deleteRemoved"}

\* connection c is between RLock and RUnlock of Get
InRead(c) == pc[c] \in {"getLocked", "getLoaded"}

\* C29: the registry holds a connection's entry from the return of Accept
\* until Close, Get for an open connection yields the logger made at that
\* connection's accept (not the fallback, not another connection's), the
\* entry is gone once Close has returned, and the registry is empty when
\* every connection is closed.
C29_RegistryFollowsConnections ==
    /\ \A c \in ConnIds :
         /\ Open(c) => (c \in DOMAIN loggers /\ loggers[c] = NewLogger(c))
         /\ got[c] # NilLogger => got[c] = NewLogger(c)
         /\ pc[c] = "closed" => c \notin DOMAIN loggers
    /\ (\A c \in ConnIds : pc[c] = "closed") => DOMAIN loggers = {}

\* one connection closed after its EHLO, another in its session, while the
\* registry holds the open one's entry only
C29_Witness ==
    \E c, d \in ConnIds :
        /\ pc[c] = "closed" /\ got[c] = NewLogger(c)
        /\ pc[d] = "session" /\ got[d] = NewLogger(d)
        /\ DOMAIN loggers = {d}

\* C30: New and Delete hold the lock exclusively and Get holds it shared
\* for the whole map access, so no map write overlaps another map access,
\* and no operation returns with the lock still held.
C30_MapAccessUnderLock ==
    \A c \in ConnIds :
        /\ InWrite(c) =>
              /\ lock.writer = c
              /\ \A d \in ConnIds \ {c} : ~InWrite(d) /\ ~InRead(d)
        /\ InRead(c) => c \in lock.readers
        /\ (~InWrite(c) /\ ~InRead(c)) =>
              (lock.writer # c /\ c \notin lock.readers)

\* two connections read the map at once while a third waits for the
\* write lock
C30_Witness ==
    \E c, d, e \in ConnIds :
        /\ c # d
        /\ InRead(c) /\ InRead(d)
        /\ pc[e] \in {"new", "delete"}

\* C31: the establishment commands go to the upstream in the order EHLO,
\* STARTTLS, XCLIENT, MAIL FROM, RCPT: on no upstream connection is XCLIENT
\* sent before STARTTLS. (Stated for upstreams that advertise STARTTLS.)
C31_EstablishmentOrder ==
    \A i \in 1..Len(conns) :
        Advertises(conns[i], "STARTTLS") =>
            \A p, q \in 1..Len(conns[i].cmds) :
                p < q =>
                    Rank(conns[i].cmds[p].cmd) <= Rank(conns[i].cmds[q].cmd)

\* C32: a Rcpt that dials an upstream and gets its EHLO answered sends
\* XCLIENT exactly when the upstream advertises XCLIENT; when XCLIENT is
\* not answered with 220 the client gets 450 and neither MAIL FROM nor the
\* RCPT goes out on that connection.
C32_XclientWhenAdvertised ==
    [][(reply'.op = "Rcpt" /\ Dialed(conns, conns')) =>
         \E c \in {NewConnOf(conns')} :
            /\ (\E k \in Positions(c.cmds, "EHLO") : c.cmds[k].ok) =>
                  (Positions(c.cmds, "XCLIENT") # {}
                      <=> Advertises(c, "XCLIENT"))
            /\ (\E k \in Positions(c.cmds, "XCLIENT") : ~c.cmds[k].ok) =>
                  /\ reply'.err = ErrInternal
                  /\ reply'.err.code = 450
                  /\ Positions(c.cmds, "MAIL") = {}
                  /\ Positions(c.cmds, "RCPT") = {}]_vars

\* a Rcpt whose XCLIENT the upstream refused
C32_Witness ==
    /\ reply.op = "Rcpt"
    /\ reply.err = ErrInternal
    /\ msg.client # NoClient
    /\ Advertises(conns[msg.client], "XCLIENT")
    /\ Last(conns[msg.client].cmds) = Cmd("XCLIENT", Empty, FALSE)

\* C33: with a delimiter configured, the key the resolver looks up for a
\* recipient whose local part contains the delimiter is the recipient
\* without everything from the first delimiter up to the "@", whatever the
\* delimiter and however often it occurs; any other recipient is looked up
\* unaltered.
C33_StrippedKey ==
    (rin # Empty /\ recipientDelimiter # Empty /\ Len(rout.trace) >= 1) =>
        rout.trace[1].key =
            IF StrippedKeys(rin) # <<>> THEN StrippedKeys(rin)[1] ELSE rin

\* the static mappings of the chain, by position
Statics == {i \in 1..Len(mappings) : mappings[i].type = "static"}

\* C34: a static mapping answers every key with its fixed upstream, so a
\* chain that holds a static mapping never resolves to not-found: the
\* result is an upstream, or the error of a lookup in a mapping placed
\* before the static one.
C34_StaticNeverMisses ==
    (rin # Empty /\ Statics # {}) =>
        /\ \A k \in 1..Len(rout.trace) :
               rout.trace[k].m \in Statics => rout.trace[k].err = Nil
        /\ rout.err # ErrNoServerFound
        /\ \/ rout.err = Nil
           \/ /\ rout.err = ErrLookup
              /\ FailedLookups(rout.trace) # {}
              /\ \A k \in FailedLookups(rout.trace) :
                    rout.trace[k].m < Min(Statics)
        /\ (rout.err = Nil /\ Last(rout.trace).m \in Statics) =>
              rout.server = WithPort(mappings[Last(rout.trace).m].server)

\* a recipient no table knows, resolved by the static mapping behind a table
C34_Witness ==
    /\ rin = R_local
    /\ Len(mappings) = 2
    /\ mappings[1].type = "csv"
    /\ mappings[2].type = "static"
    /\ Len(rout.trace) = 2
    /\ rout.trace[1].err = ErrNoServerFound
    /\ rout.err = Nil
    /\ rout.server = WithPort(MxS)

\* C35: Reset on a transaction with an upstream client ends that upstream
\* connection, by QUIT or, when QUIT fails, by closing it: after Reset the
\* connection is not open, no other connection was touched or dialed, and
\* the session holds the zero transaction.
C35_ResetTearsDown ==
    [][(reply'.op = "Reset" /\ msg.client # NoClient) =>
          /\ Len(conns') = Len(conns)
          /\ ~conns'[msg.client].open
          /\ \A j \in 1..Len(conns) : j # msg.client => conns'[j] = conns[j]
          /\ reply'.err = Nil
          /\ msg' = buildZeroProxyMessage
          /\ msg'.client = NoClient /\ msg'.from = Empty
          /\ msg'.rcpts = <<>> /\ msg'.server = Empty /\ ~msg'.tls]_vars

\* the Reset that ended the upstream connection of the session's first
\* transaction
C35_Witness ==
    /\ reply.op = "Reset"
    /\ ~reply.again
    /\ txn = 1
    /\ msg = buildZeroProxyMessage
    /\ Len(conns) = 1
    /\ ~conns[1].open

\* C36: a failed accept of the underlying listener is handed back by
\* SessionListener.Accept as an error: Accept does not fault, and the
\* failed accept leaves no entry in the registry.
C36_FailedAcceptReturnsError ==
    \A c \in ConnIds :
        /\ pc[c] # "panic"
        /\ pc[c] \in {"listen", "panic"} => c \notin DOMAIN loggers

RECURSIVE MailsFrom(_, _)
MailsFrom(cs, i) ==
    IF i > Len(cs) THEN 0
    ELSE Cardinality(Positions(cs[i].cmds, "MAIL")) + MailsFrom(cs, i + 1)

\* how many MAIL FROM commands the upstream connections were sent
MailsSent(cs) == MailsFrom(cs, 1)

C38_TlsFlag ==
    [][/\ msg.client = NoClient => ~msg.tls
       /\ (msg'.tls /\ ~msg.tls) =>
            /\ reply'.op = "Rcpt"
            /\ Dialed(conns, conns')
            /\ msg'.client = Len(conns')
            /\ conns'[msg'.client].tls
            /\ \E k \in Positions(conns'[msg'.client].cmds, "STARTTLS") :
                  conns'[msg'.client].cmds[k].ok
       /\ (msg'.tls /\ msg.tls) =>
            /\ reply'.op \in {"Rcpt", "Data", "Logout"}
            /\ msg'.client = msg.client
       /\ (msg'.tls /\ phase' # "closed") =>
            /\ msg'.client # NoClient
            /\ conns'[msg'.client].tls
            /\ (line'.msg # "" => line'.upstream_tls)
       /\ reply'.op = "Mail" => ~msg'.tls
       /\ (reply'.op = "Reset" /\ msg.client # NoClient) => ~msg'.tls]_vars

\* a second recipient forwarded on an upstream connection that started TLS
C38_Witness ==
    /\ reply.op = "Rcpt"
    /\ reply.err = Nil
    /\ msg.tls
    /\ Len(msg.rcpts) = 2
    /\ conns[msg.client].tls
    /\ Cardinality(Positions(conns[msg.client].cmds, "RCPT")) = 2

====
